---- MODULE Spec2Model ----
(***************************************************************************)
(* Fog-node motion verification (src/fog_node/fog_node.py) and its cloud   *)
(* handler.                                                                *)
(*                                                                         *)
(* The module models main()'s sensor loop together with the burst          *)
(* verification verify_motion_with_camera() it calls and the upload        *)
(* send_to_cloud().  The program is single threaded; pc is the position of *)
(* that one thread.                                                        *)
(*                                                                         *)
(* Numbers.  Scores are Python floats in [0,1]; they are kept here as      *)
(* exact fixed-point integers with One = 1.0, a unit in which every        *)
(* sub-score and weight used below is an integer.  Times are whole         *)
(* seconds; `now` is the last value time.time() returned, and it only      *)
(* moves in the steps in which the code reads the clock.                   *)
(*                                                                         *)
(* Frames.  A captured frame is represented by what the scorer measures on *)
(* it against the session's reference: the number of contours that survive *)
(* the area filter, their summed area and the mean absolute difference.    *)
(* motion_scores is a Python list; it is only read through len(), sum()    *)
(* and sorted(), so it is kept as a bag.                                   *)
(*                                                                         *)
(* Specifications.  Spec is the sensor loop with burst verification and    *)
(* upload.  SpecDetector is a client feeding one MotionDetector (the       *)
(* continuous mode, which main() does not use).  SpecScores applies the    *)
(* confidence formulas of both modes to measurements of any size, and      *)
(* SpecBlend repeats the background update on one pixel.  SpecLambda is    *)
(* the cloud handler (src/lambda/lambda_function.py) that receives the     *)
(* uploads.                                                                *)
(***************************************************************************)
EXTENDS Integers, Sequences, FiniteSets, Bags, TLC

\* ------------------------------------------------------------- bounds ---
\* Largest clock value explored; the clock stops there.
MaxTime == 6
\* Largest number of frames handed to one MotionDetector.
MaxFrames == 8
\* Largest number of invocations of the cloud handler.
MaxRequests == 2

\* -------------------------------------------------- program constants ---
MIN_MOTION_FRAMES == 3
MIN_CONTOUR_AREA == 500
MAX_CONTOUR_AREA == 200000
FRAME_BUFFER_SIZE == 5
COOLDOWN_PERIOD == 5
REFERENCE_FRAMES_COUNT == 5
ANALYSIS_FRAMES_COUNT == 15

\* The float 1.0 in fixed point: sub-scores are multiples of One/3000 and
\* weights are tenths, so every score below is an exact integer.
One == 30000
CONFIDENCE_THRESHOLD == (6 * One) \div 10

\* Python's None for an optional value, and the value x when present.
None == << >>
Some(x) == << x >>
NoLine == "NoLine"
\* The read of this iteration raised (serial error, undecodable bytes).
ReadFailed == "ReadFailed"

Min(a, b) == IF a <= b THEN a ELSE b

\* What the camera can show in one analysis frame: a still scene whose
\* residual difference leaves no significant contour, a scene scoring
\* exactly the threshold, and a strong one.
Scenes ==
    { [num_contours |-> 0, total_area |-> 0,     mean_diff |-> 2],
      [num_contours |-> 1, total_area |-> 25000, mean_diff |-> 50],
      [num_contours |-> 3, total_area |-> 37500, mean_diff |-> 50] }

\* Tokens the serial line can deliver after decode().strip().
Lines == {"ON", "OFF", "junk"}

\* Ways send_to_cloud's try block can end.
UploadOutcomes == {"ok", "unconfigured", "http_error", "url_error", "other_error"}

VARIABLES
    pc,                 \* position of the single thread
    now,                \* last value read from time.time()
    line,               \* token read in this loop iteration, or NoLine
    last_state,         \* main: last_state
    detector_cooldown,  \* main: detector_cooldown
    CV2_AVAILABLE,      \* module level flag set by the import
    cap,                \* camera handle: "none", "unopened", "open", "released"
    ref_i,              \* reference phase loop index
    reference_frames,   \* len(reference_frames)
    frame_idx,          \* analysis phase loop index
    motion_scores,      \* bag of the scores appended so far
    max_confidence,
    best_frame,         \* None or the retained frame
    frames_with_motion,
    result,             \* what verify_motion_with_camera returned
    upload_outcome,     \* history: how send_to_cloud ended for the last accepted edge
    sends,              \* history: send_to_cloud calls for the last accepted edge
    last_send,          \* history: clock value at the last send_to_cloud call, -1 if none
    ignored_edge,       \* history: an edge was ignored in cooldown and no "OFF" was read since
    \* a MotionDetector object
    is_initialized,
    background_frame,   \* None, or the frames blended into the model, oldest first
    frame_buffer,       \* deque(maxlen=FRAME_BUFFER_SIZE) of frames
    motion_frame_count,
    last_valid_motion_time,
    analysis,           \* what the last analyze_frame call returned
    frames_seen,        \* history: frames handed to analyze_frame so far
    motion_since_reset, \* history: frames judged motion since the last reset_motion_count
    \* the score formulas and the background update taken on their own
    measured,           \* the measurements handed to the score formulas
    scores,             \* the sub-scores and the confidence computed from them
    model_px,           \* one pixel of the background / reference model (uint8)
    frame_px,           \* the same pixel of the frame blended in (uint8)
    old_weight,         \* weight of the model in the blend, in hundredths
    updated,            \* history: the model was updated with this frame at least once
    \* the cloud handler (src/lambda/lambda_function.py)
    lpc,                \* position of the handler's invocation
    request,            \* the event of the current invocation
    S3_BUCKET,          \* the environment variable is set
    SNS_TOPIC_ARN,      \* the environment variable is set
    s3_key,             \* handle_post: s3_key
    bucket,             \* keys of the objects in the bucket
    table,              \* items of the MotionEvents table
    alerts,             \* messages published to the topic
    response,           \* what lambda_handler returned
    calls,              \* history: how each service call of this invocation ended
    requests            \* history: invocations so far

fogVars == << pc, now, line, last_state, detector_cooldown, CV2_AVAILABLE, cap,
           ref_i, reference_frames, frame_idx, motion_scores, max_confidence,
           best_frame, frames_with_motion, result, upload_outcome, sends,
           last_send, ignored_edge >>

detectorVars == << is_initialized, background_frame, frame_buffer, motion_frame_count,
                   last_valid_motion_time, analysis, frames_seen, motion_since_reset >>

scoreVars == << measured, scores >>
blendVars == << model_px, frame_px, old_weight, updated >>

lambdaVars == << lpc, request, S3_BUCKET, SNS_TOPIC_ARN, s3_key, bucket, table,
                 alerts, response, calls, requests >>

vars == << fogVars, detectorVars, scoreVars, blendVars, lambdaVars >>

mainVars == << last_state, detector_cooldown >>
sessionVars == << ref_i, reference_frames, frame_idx, motion_scores,
                  max_confidence, best_frame, frames_with_motion >>
histVars == << upload_outcome, sends, last_send, ignored_edge >>

\* --------------------------------------------------------- pure parts ---

\* lines 276-281: the per-frame score of the burst mode.
area_score(total_area) == Min((total_area * One) \div 50000, One)
\* Variant of the difference sub-score without the clamp.
diff_score_unclamped(mean_diff) == (mean_diff * One) \div 50
diff_score(mean_diff) == Min((mean_diff * One) \div 50, One)
contour_score(num_contours) == Min((num_contours * One) \div 3, One)

FrameScore(f) ==
    IF f.num_contours > 0
    THEN (area_score(f.total_area) * 4 + diff_score(f.mean_diff) * 3
          + contour_score(f.num_contours) * 3) \div 10
    ELSE 0

\* Variant of line 286 that counts every scored frame.
CountsAsMotionAlways(frame_score) == TRUE

\* line 286
CountsAsMotion(frame_score) == frame_score >= CONFIDENCE_THRESHOLD

\* Variants of line 296 used to test the claims below.
IsNewBestLatest(frame_score, maxc) == frame_score > 0
IsNewBestOrEqual(frame_score, maxc) == frame_score >= maxc

\* line 296
IsNewBest(frame_score, maxc) == frame_score > maxc

\* sum(motion_scores), len(motion_scores)
RECURSIVE SumOver(_, _)
SumOver(b, S) ==
    IF S = {} THEN 0
    ELSE LET x == CHOOSE y \in S : TRUE
         IN  x * CopiesIn(x, b) + SumOver(b, S \ {x})

\* number of entries of b whose value is in S
RECURSIVE CountOver(_, _)
CountOver(b, S) ==
    IF S = {} THEN 0
    ELSE LET x == CHOOSE y \in S : TRUE
         IN  CopiesIn(x, b) + CountOver(b, S \ {x})

ScoreSum(b) == SumOver(b, BagToSet(b))
ScoreLen(b) == CountOver(b, BagToSet(b))

\* line 310: the average as the exact fraction num/den (0.0 when empty).
AvgConfidence(b) ==
    IF ScoreLen(b) > 0 THEN [num |-> ScoreSum(b), den |-> ScoreLen(b)]
                       ELSE [num |-> 0, den |-> 1]

\* lines 313-314: sorted_scores[len // 2] (0-based), 0.0 when empty.
MedianConfidence(b) ==
    IF ScoreLen(b) = 0 THEN 0
    ELSE LET k == ScoreLen(b) \div 2
             Below(v) == CountOver(b, {x \in BagToSet(b) : x < v})
         IN  CHOOSE v \in BagToSet(b) : Below(v) <= k /\ k < Below(v) + CopiesIn(v, b)

\* Variant of lines 316-320 without the average gate.
IsRealNoAverage(fwm, maxc, avg) ==
    /\ fwm >= MIN_MOTION_FRAMES
    /\ maxc >= CONFIDENCE_THRESHOLD

\* lines 316-320: the final verdict; avg >= CONFIDENCE_THRESHOLD * 0.4.
IsReal(fwm, maxc, avg) ==
    /\ fwm >= MIN_MOTION_FRAMES
    /\ maxc >= CONFIDENCE_THRESHOLD
    /\ avg.num * 10 >= CONFIDENCE_THRESHOLD * 4 * avg.den

\* lines 348-350: base64 of the JPEG of a frame.
EncodeJpegB64(frame) == << "jpeg_b64", frame >>

NoDebug == [status |-> "", total_frames |-> 0, frames_with_motion |-> 0,
            max_confidence |-> 0, avg_confidence |-> [num |-> 0, den |-> 1],
            median_confidence |-> 0]

DebugText(s) == [NoDebug EXCEPT !.status = s]

NoResult == [is_real |-> FALSE, confidence |-> 0, image_b64 |-> None,
             debug_info |-> DebugText("no result")]

Returned(r, c, img, dbg) ==
    [is_real |-> r, confidence |-> c, image_b64 |-> img, debug_info |-> dbg]

\* Variant of lines 364-365 in which the legacy capture delivers a picture.
CaptureImageWithoutCv2Photo == Some(EncodeJpegB64(CHOOSE f \in Scenes : f.num_contours = 0))

\* lines 364-365: capture_image() without OpenCV.
CaptureImageWithoutCv2 == None

\* Variant of line 218 that goes on with a single reference frame.
TooFewReferenceFramesNone(n) == n < 1

\* line 218
TooFewReferenceFrames(n) == n < 2

\* line 446
IsRisingEdge(l, ls) == l = "ON" /\ ls # "ON"

\* Variants of line 450.
InCooldownInclusive(t, expiry) == t <= expiry
InCooldownNever(t, expiry) == FALSE

\* line 450
InCooldown(t, expiry) == t < expiry

\* Variant of line 453: the ignored edge is not recorded.
StateAfterIgnoredEdgeKept == last_state

\* line 453
StateAfterIgnoredEdge == "ON"

\* Variants of lines 465, 471.
ShouldUploadAlways(r) == TRUE
ShouldUploadAnyImage(r) == r.is_real

\* lines 465, 471: `if is_real:` then `if image_b64:`
ShouldUpload(r) == r.is_real /\ r.image_b64 # None

\* Variant of line 505 that leaves the recorded line state as it was.
StateAfterVerificationKept == last_state

\* line 505
StateAfterVerification == "ON"

\* Variant of line 489 without the period.
CooldownExpiryNow(t) == t

\* line 489
CooldownExpiry(t) == t + COOLDOWN_PERIOD

\* Variant of lines 405-410 without the final `except Exception`.
SendRaisesOther(outcome) == outcome = "other_error"

\* lines 405-410: every exception of the try block is caught inside
\* send_to_cloud, so none reaches main.
SendRaises(outcome) == FALSE

\* Variant of lines 515-517 in which an Exception leaves the loop.
AfterExceptionStop == "stopped"

\* lines 515-517: `except Exception` prints, sleeps and the loop continues.
AfterException == "loop"

\* The clock is monotone and stops at MaxTime.
ClockReads == now .. MaxTime

\* --------------------------------------------------------------- Init ---
FreshSession ==
    /\ ref_i = 0
    /\ reference_frames = 0
    /\ frame_idx = 0
    /\ motion_scores = EmptyBag
    /\ max_confidence = 0
    /\ best_frame = None
    /\ frames_with_motion = 0

ResetSession ==
    /\ ref_i' = 0
    /\ reference_frames' = 0
    /\ frame_idx' = 0
    /\ motion_scores' = EmptyBag
    /\ max_confidence' = 0
    /\ best_frame' = None
    /\ frames_with_motion' = 0

\* lines 46-51: MotionDetector.__init__
NoAnalysis ==
    [is_confirmed |-> FALSE, confidence |-> 0, status |-> "no call", contours |-> 0,
     motion_area |-> 0, motion_frames |-> 0, against |-> None]

InitMotionDetector ==
    /\ is_initialized = FALSE
    /\ background_frame = None
    /\ frame_buffer = << >>
    /\ motion_frame_count = 0
    /\ last_valid_motion_time = 0
    /\ analysis = NoAnalysis
    /\ frames_seen = 0
    /\ motion_since_reset = 0

\* No score computed, no blend under study.
NoScores == [mode |-> "none", sub |-> << >>, confidence |-> 0]

IdleScores ==
    /\ measured = [significant |-> 0, total_area |-> 0, contours_frame |-> 0,
                   contours_bg |-> 0, mean_diff |-> 0]
    /\ scores = NoScores

IdleBlend ==
    /\ model_px = 0
    /\ frame_px = 0
    /\ old_weight = 95
    /\ updated = FALSE

\* The cloud handler before any invocation.
NoRequest == [method |-> "none", body |-> "none", timestamp |-> "absent", image |-> "absent"]
NoResponse == [statusCode |-> 0, body |-> "none"]
NoCalls == [put_object |-> "none", put_item |-> "none", presigned_url |-> "none",
            publish |-> "none"]

IdleHandler ==
    /\ lpc = "idle"
    /\ request = NoRequest
    /\ s3_key = None
    /\ bucket = {}
    /\ table = {}
    /\ alerts = {}
    /\ response = NoResponse
    /\ calls = NoCalls
    /\ requests = 0

IdleLambda ==
    /\ IdleHandler
    /\ S3_BUCKET = FALSE
    /\ SNS_TOPIC_ARN = FALSE

\* lines 421-422, and the import at lines 11-17.
InitMain ==
    /\ pc = "loop"
    /\ now = 0
    /\ line = NoLine
    /\ last_state = "OFF"
    /\ detector_cooldown = 0
    /\ CV2_AVAILABLE \in BOOLEAN
    /\ cap = "none"
    /\ FreshSession
    /\ result = NoResult
    /\ upload_outcome = "none"
    /\ sends = 0
    /\ last_send = -1
    /\ ignored_edge = FALSE

Init == InitMain /\ InitMotionDetector /\ IdleScores /\ IdleBlend /\ IdleLambda

\* ---------------------------------------------------------- main loop ---
\* line 443 false: nothing waiting on the serial port (or it is not open).
NoData ==
    /\ UNCHANGED << detectorVars, scoreVars, blendVars, lambdaVars >>
    /\ pc = "loop"
    /\ line' = NoLine
    /\ UNCHANGED << pc, now, mainVars, CV2_AVAILABLE, cap, sessionVars, result, histVars >>

\* line 444 raising (a line that does not decode), caught at lines 515-517;
\* the handler sleeps one second.
ReadError ==
    /\ UNCHANGED << detectorVars, scoreVars, blendVars, lambdaVars >>
    /\ pc = "loop"
    /\ line' = ReadFailed
    /\ now' = Min(now + 1, MaxTime)
    /\ pc' = AfterException
    /\ UNCHANGED << mainVars, CV2_AVAILABLE, cap, sessionVars, result, histVars >>

\* A token for which neither line 446 nor line 507 holds: a repeated "ON"
\* or anything that is not "ON"/"OFF".
ReadNoEdge(l) ==
    /\ UNCHANGED << detectorVars, scoreVars, blendVars, lambdaVars >>
    /\ pc = "loop"
    /\ l # "OFF"
    /\ ~IsRisingEdge(l, last_state)
    /\ line' = l
    /\ UNCHANGED << pc, now, mainVars, CV2_AVAILABLE, cap, sessionVars, result, histVars >>

\* lines 507-510
ReadOff ==
    /\ UNCHANGED << detectorVars, scoreVars, blendVars, lambdaVars >>
    /\ pc = "loop"
    /\ ~IsRisingEdge("OFF", last_state)
    /\ line' = "OFF"
    /\ last_state' = "OFF"
    /\ ignored_edge' = FALSE
    /\ UNCHANGED << pc, now, detector_cooldown, CV2_AVAILABLE, cap, sessionVars,
                    result, upload_outcome, sends, last_send >>

\* lines 446-454: a rising edge while the clock is before the expiry.
RisingEdgeInCooldown(l, t) ==
    /\ UNCHANGED << detectorVars, scoreVars, blendVars, lambdaVars >>
    /\ pc = "loop"
    /\ IsRisingEdge(l, last_state)
    /\ InCooldown(t, detector_cooldown)
    /\ line' = l
    /\ now' = t
    /\ last_state' = StateAfterIgnoredEdge
    /\ ignored_edge' = TRUE
    /\ UNCHANGED << pc, detector_cooldown, CV2_AVAILABLE, cap, sessionVars,
                    result, upload_outcome, sends, last_send >>

\* lines 446-461: a rising edge outside cooldown enters verify_motion_with_camera.
RisingEdgeAccepted(l, t) ==
    /\ UNCHANGED << detectorVars, scoreVars, blendVars, lambdaVars >>
    /\ pc = "loop"
    /\ IsRisingEdge(l, last_state)
    /\ ~InCooldown(t, detector_cooldown)
    /\ line' = l
    /\ now' = t
    /\ pc' = "verify"
    /\ sends' = 0
    /\ upload_outcome' = "none"
    /\ cap' = "none"
    /\ ResetSession
    /\ UNCHANGED << mainVars, CV2_AVAILABLE, result, last_send, ignored_edge >>

\* lines 512-514: the operator's interrupt ends the loop; it is not an
\* Exception, so it also passes through the handlers of the callees.
Interrupt ==
    /\ UNCHANGED << detectorVars, scoreVars, blendVars, lambdaVars >>
    /\ pc # "stopped"
    /\ pc' = "stopped"
    /\ line' = NoLine
    /\ result' = NoResult
    /\ ResetSession
    /\ UNCHANGED << now, mainVars, CV2_AVAILABLE, cap, histVars >>

\* -------------------------------------------- verify_motion_with_camera ---
Return(r) ==
    /\ UNCHANGED << detectorVars, scoreVars, blendVars, lambdaVars >>
    /\ pc' = "returned"
    /\ result' = r
    /\ ResetSession
    /\ UNCHANGED << now, line, mainVars, CV2_AVAILABLE, histVars >>

\* lines 193-197; capture_image() returns None without OpenCV (lines 364-365).
VerifyNoCv2 ==
    /\ pc = "verify"
    /\ ~CV2_AVAILABLE
    /\ Return(Returned(TRUE, One, CaptureImageWithoutCv2, DebugText("OpenCV not available")))
    /\ UNCHANGED cap

\* lines 200-203: the device does not open.
OpenCameraFail ==
    /\ pc = "verify"
    /\ CV2_AVAILABLE
    /\ cap' = "unopened"
    /\ Return(Returned(TRUE, One, None, DebugText("Camera unavailable")))

\* lines 200-210
OpenCameraOk ==
    /\ UNCHANGED << detectorVars, scoreVars, blendVars, lambdaVars >>
    /\ pc = "verify"
    /\ CV2_AVAILABLE
    /\ cap' = "open"
    /\ pc' = "reference"
    /\ UNCHANGED << now, line, mainVars, CV2_AVAILABLE, sessionVars, result, histVars >>

\* lines 211-216: one iteration of the reference loop.
ReferenceRead(ret) ==
    /\ UNCHANGED << detectorVars, scoreVars, blendVars, lambdaVars >>
    /\ pc = "reference"
    /\ ref_i < REFERENCE_FRAMES_COUNT
    /\ ref_i' = ref_i + 1
    /\ reference_frames' = IF ret THEN reference_frames + 1 ELSE reference_frames
    /\ UNCHANGED << pc, now, line, mainVars, CV2_AVAILABLE, cap, frame_idx,
                    motion_scores, max_confidence, best_frame, frames_with_motion,
                    result, histVars >>

\* lines 218-220
ReferenceTooFew ==
    /\ pc = "reference"
    /\ ref_i = REFERENCE_FRAMES_COUNT
    /\ TooFewReferenceFrames(reference_frames)
    /\ cap' = "released"
    /\ Return(Returned(TRUE, One, None, DebugText("Not enough reference frames")))

\* lines 222-240: the reference map is built and the counters start.
ReferenceDone ==
    /\ UNCHANGED << detectorVars, scoreVars, blendVars, lambdaVars >>
    /\ pc = "reference"
    /\ ref_i = REFERENCE_FRAMES_COUNT
    /\ ~TooFewReferenceFrames(reference_frames)
    /\ pc' = "analysis"
    /\ frame_idx' = 0
    /\ motion_scores' = EmptyBag
    /\ max_confidence' = 0
    /\ best_frame' = None
    /\ frames_with_motion' = 0
    /\ UNCHANGED << now, line, mainVars, CV2_AVAILABLE, cap, ref_i, reference_frames,
                    result, histVars >>

\* lines 243-245: a failed read skips the frame.
AnalysisReadFail ==
    /\ UNCHANGED << detectorVars, scoreVars, blendVars, lambdaVars >>
    /\ pc = "analysis"
    /\ frame_idx < ANALYSIS_FRAMES_COUNT
    /\ frame_idx' = frame_idx + 1
    /\ UNCHANGED << pc, now, line, mainVars, CV2_AVAILABLE, cap, ref_i, reference_frames,
                    motion_scores, max_confidence, best_frame, frames_with_motion,
                    result, histVars >>

\* lines 247-303: one analysed frame.
AnalysisFrame(f) ==
    /\ UNCHANGED << detectorVars, scoreVars, blendVars, lambdaVars >>
    /\ pc = "analysis"
    /\ frame_idx < ANALYSIS_FRAMES_COUNT
    /\ LET frame_score == FrameScore(f)
       IN  /\ motion_scores' = motion_scores (+) SetToBag({frame_score})
           /\ frames_with_motion' =
                  IF CountsAsMotion(frame_score) THEN frames_with_motion + 1
                                                 ELSE frames_with_motion
           /\ IF IsNewBest(frame_score, max_confidence)
              THEN max_confidence' = frame_score /\ best_frame' = Some(f)
              ELSE UNCHANGED << max_confidence, best_frame >>
    /\ frame_idx' = frame_idx + 1
    /\ UNCHANGED << pc, now, line, mainVars, CV2_AVAILABLE, cap, ref_i, reference_frames,
                    result, histVars >>

\* lines 305-353: release, decision, encoding of the best frame.
\* encode_ok is imencode's retval.
AnalysisDone(encode_ok) ==
    /\ pc = "analysis"
    /\ frame_idx = ANALYSIS_FRAMES_COUNT
    /\ cap' = "released"
    /\ LET avg_confidence == AvgConfidence(motion_scores)
           is_real == IsReal(frames_with_motion, max_confidence, avg_confidence)
           debug_summary ==
               [status |-> "summary",
                total_frames |-> ScoreLen(motion_scores),
                frames_with_motion |-> frames_with_motion,
                max_confidence |-> max_confidence,
                avg_confidence |-> avg_confidence,
                median_confidence |-> MedianConfidence(motion_scores)]
           image_b64 ==
               IF is_real /\ best_frame # None /\ encode_ok
               THEN EncodeJpegB64(best_frame[1])
               ELSE None
       IN  Return(Returned(is_real, max_confidence, image_b64, debug_summary))

\* lines 355-359: any exception inside the try block.  It is raised by the
\* camera and image calls: opening the device, the body of either loop,
\* building the reference map, the decision; the early return of lines
\* 218-220 makes no such call.
VerifyException ==
    /\ pc \in {"verify", "reference", "analysis"}
    /\ CV2_AVAILABLE
    /\ ~(pc = "reference" /\ ref_i = REFERENCE_FRAMES_COUNT
          /\ TooFewReferenceFrames(reference_frames))
    /\ Return(Returned(FALSE, 0, None, DebugText("Error")))
    /\ UNCHANGED cap

\* --------------------------------------------- main, after verification ---
\* lines 462-505 without the upload: the clock is read, the verdict printed.
HandleNoUpload(t) ==
    /\ UNCHANGED << detectorVars, scoreVars, blendVars, lambdaVars >>
    /\ pc = "returned"
    /\ ~ShouldUpload(result)
    /\ now' = t
    /\ last_state' = StateAfterVerification
    /\ pc' = "loop"
    /\ result' = NoResult
    /\ UNCHANGED << line, detector_cooldown, CV2_AVAILABLE, cap, sessionVars, histVars >>

\* lines 462-486: the event is built (timestamp read) and send_to_cloud called.
SendToCloud(t, outcome) ==
    /\ UNCHANGED << detectorVars, scoreVars, blendVars, lambdaVars >>
    /\ pc = "returned"
    /\ ShouldUpload(result)
    /\ now' = t
    /\ sends' = sends + 1
    /\ last_send' = t
    /\ upload_outcome' = outcome
    /\ IF SendRaises(outcome)
       THEN /\ pc' = "loop"
            /\ result' = NoResult
       ELSE /\ pc' = "sent"
            /\ UNCHANGED result
    /\ UNCHANGED << line, mainVars, CV2_AVAILABLE, cap, sessionVars, ignored_edge >>

\* lines 488-491 and 505
SetCooldown(t) ==
    /\ UNCHANGED << detectorVars, scoreVars, blendVars, lambdaVars >>
    /\ pc = "sent"
    /\ now' = t
    /\ detector_cooldown' = CooldownExpiry(t)
    /\ last_state' = StateAfterVerification
    /\ pc' = "loop"
    /\ result' = NoResult
    /\ UNCHANGED << line, CV2_AVAILABLE, cap, sessionVars, histVars >>

Next ==
    \/ NoData
    \/ ReadError
    \/ \E l \in Lines : ReadNoEdge(l)
    \/ ReadOff
    \/ \E l \in Lines, t \in ClockReads : RisingEdgeInCooldown(l, t)
    \/ \E l \in Lines, t \in ClockReads : RisingEdgeAccepted(l, t)
    \/ Interrupt
    \/ VerifyNoCv2
    \/ OpenCameraFail
    \/ OpenCameraOk
    \/ \E ret \in BOOLEAN : ReferenceRead(ret)
    \/ ReferenceTooFew
    \/ ReferenceDone
    \/ AnalysisReadFail
    \/ \E f \in Scenes : AnalysisFrame(f)
    \/ \E ok \in BOOLEAN : AnalysisDone(ok)
    \/ VerifyException
    \/ \E t \in ClockReads : HandleNoUpload(t)
    \/ \E t \in ClockReads, o \in UploadOutcomes : SendToCloud(t, o)
    \/ \E t \in ClockReads : SetCooldown(t)

Spec == Init /\ [][Next]_vars

\* ------------------------------------------------------ MotionDetector ---
\* The continuous mode.  A frame is the number of its position in the
\* stream; background_frame is the sequence of the frames blended into the
\* model so far.  What the scorer measures on a frame is an input: the
\* number of contours of the frame-to-frame difference, the areas of the
\* contours of the difference to the background, and the mean of that
\* difference.

Max(a, b) == IF a >= b THEN a ELSE b

DetectorScenes ==
    { [contours_frame |-> 0, contours_bg |-> << >>, mean_diff |-> 1],
      [contours_frame |-> 1, contours_bg |-> << 5000 >>, mean_diff |-> 10],
      [contours_frame |-> 1, contours_bg |-> << 250000 >>, mean_diff |-> 60],
      [contours_frame |-> 2, contours_bg |-> << 10000, 6000, 4000, 300, 200 >>, mean_diff |-> 25],
      [contours_frame |-> 3, contours_bg |-> << 20000, 20000, 10000 >>, mean_diff |-> 50] }

\* lines 109-113: the contours that survive the area filter.
SignificantContours(areas) ==
    SelectSeq(areas, LAMBDA a : MIN_CONTOUR_AREA < a /\ a < MAX_CONTOUR_AREA)

RECURSIVE SeqSum(_)
SeqSum(q) == IF q = << >> THEN 0 ELSE Head(q) + SeqSum(Tail(q))

\* line 125
AreaScoreOrZero(total_motion_area) ==
    IF total_motion_area > 0 THEN area_score(total_motion_area) ELSE 0

\* lines 130-132
consistency_score(contours_frame, contours_bg) ==
    Min((contours_frame * One) \div Max(contours_bg, 1), One)

\* lines 117-142: weights 0.3, 0.25, 0.25, 0.2.
ContinuousConfidence(significant, total_motion_area, contours_frame, contours_bg, mean_diff) ==
    (contour_score(significant) * 30 + AreaScoreOrZero(total_motion_area) * 25
     + consistency_score(contours_frame, contours_bg) * 25
     + diff_score(mean_diff) * 20) \div 100

\* Variant of lines 146-150 without the confidence gate.
HasMotionAnyContour(confidence, significant, total_motion_area) ==
    /\ significant > 0
    /\ total_motion_area > MIN_CONTOUR_AREA

\* lines 146-150
HasMotion(confidence, significant, total_motion_area) ==
    /\ confidence >= CONFIDENCE_THRESHOLD
    /\ significant > 0
    /\ total_motion_area > MIN_CONTOUR_AREA

\* line 154
StreakAfterMotion(count) == count + 1

\* Variant of line 156 without the floor.
StreakAfterMissUnfloored(count) == count - 1

\* line 156
StreakAfterMiss(count) == Max(0, count - 1)

\* line 166
IsConfirmed(count) == count >= MIN_MOTION_FRAMES

\* Variant of line 179 that leaves the streak as it is.
ResetCountKept == motion_frame_count

\* line 179
ResetCount == 0

\* deque(maxlen=FRAME_BUFFER_SIZE).append
PushBuffer(buf, x) ==
    IF Len(buf) < FRAME_BUFFER_SIZE THEN Append(buf, x) ELSE Append(Tail(buf), x)

EarlyReturn(text) ==
    [is_confirmed |-> FALSE, confidence |-> 0, status |-> text, contours |-> 0,
     motion_area |-> 0, motion_frames |-> 0, against |-> None]

\* lines 58-68: the first frame becomes the background.
AnalyzeFirstFrame ==
    /\ UNCHANGED << fogVars, scoreVars, blendVars, lambdaVars >>
    /\ frames_seen < MaxFrames
    /\ ~is_initialized
    /\ background_frame' = << frames_seen + 1 >>
    /\ is_initialized' = TRUE
    /\ analysis' = EarlyReturn("Initializing background model")
    /\ frames_seen' = frames_seen + 1
    /\ UNCHANGED << frame_buffer, motion_frame_count, last_valid_motion_time,
                    motion_since_reset >>

\* lines 70-86: the frame is buffered, and with fewer than two buffered
\* frames the call returns.
AnalyzeBuildingBuffer ==
    /\ UNCHANGED << fogVars, scoreVars, blendVars, lambdaVars >>
    /\ frames_seen < MaxFrames
    /\ is_initialized
    /\ Len(PushBuffer(frame_buffer, frames_seen + 1)) < 2
    /\ frame_buffer' = PushBuffer(frame_buffer, frames_seen + 1)
    /\ analysis' = EarlyReturn("Building frame buffer")
    /\ frames_seen' = frames_seen + 1
    /\ UNCHANGED << is_initialized, background_frame, motion_frame_count,
                    last_valid_motion_time, motion_since_reset >>

\* lines 70-75 and 88-168: the frame is buffered, scored against the
\* previous frame and the background, counted, and blended into the
\* background.
AnalyzeScored(m) ==
    /\ UNCHANGED << fogVars, scoreVars, blendVars, lambdaVars >>
    /\ frames_seen < MaxFrames
    /\ is_initialized
    /\ Len(PushBuffer(frame_buffer, frames_seen + 1)) >= 2
    /\ LET significant_contours == SignificantContours(m.contours_bg)
           total_motion_area == SeqSum(significant_contours)
           confidence == ContinuousConfidence(Len(significant_contours), total_motion_area,
                                              m.contours_frame, Len(m.contours_bg),
                                              m.mean_diff)
           has_motion == HasMotion(confidence, Len(significant_contours), total_motion_area)
           count == IF has_motion THEN StreakAfterMotion(motion_frame_count)
                                  ELSE StreakAfterMiss(motion_frame_count)
       IN  /\ frame_buffer' = PushBuffer(frame_buffer, frames_seen + 1)
           /\ motion_frame_count' = count
           /\ background_frame' = Append(background_frame, frames_seen + 1)
           /\ analysis' = [is_confirmed |-> IsConfirmed(count), confidence |-> confidence,
                           status |-> "scored",
                           contours |-> Len(significant_contours),
                           motion_area |-> total_motion_area, motion_frames |-> count,
                           against |-> background_frame]
           /\ motion_since_reset' = motion_since_reset + (IF has_motion THEN 1 ELSE 0)
    /\ frames_seen' = frames_seen + 1
    /\ UNCHANGED << is_initialized, last_valid_motion_time >>

\* lines 177-180: reset_motion_count, called by the client at clock value t.
ResetMotionCount(t) ==
    /\ UNCHANGED << fogVars, scoreVars, blendVars, lambdaVars >>
    /\ motion_frame_count' = ResetCount
    /\ last_valid_motion_time' = t
    /\ motion_since_reset' = 0
    /\ UNCHANGED << is_initialized, background_frame, frame_buffer, analysis, frames_seen >>

\* A client that has the library and feeds one detector frame after frame.
InitDetector == Init /\ CV2_AVAILABLE

NextDetector ==
    \/ AnalyzeFirstFrame
    \/ AnalyzeBuildingBuffer
    \/ \E m \in DetectorScenes : AnalyzeScored(m)
    \/ \E t \in ClockReads : ResetMotionCount(t)

SpecDetector == InitDetector /\ [][NextDetector]_vars

\* ------------------------------------------------------ score formulas ---
\* The confidence computations of both modes applied to measurements of
\* any size: none, just past a gate, at the value where a sub-score
\* reaches 1.0, and well beyond it (a mean difference of uint8 images is
\* at most 255).

Measurements ==
    [significant : {0, 1, 3, 1000}, total_area : {0, 501, 50000, 70000},
     contours_frame : {0, 1, 1000}, contours_bg : {0, 1, 1000},
     mean_diff : {0, 25, 50, 255}]

\* lines 117-142
ScoreContinuous ==
    /\ UNCHANGED << fogVars, detectorVars, blendVars, lambdaVars, measured >>
    /\ scores' =
         [mode |-> "continuous",
          sub |-> << contour_score(measured.significant),
                     AreaScoreOrZero(measured.total_area),
                     consistency_score(measured.contours_frame, measured.contours_bg),
                     diff_score(measured.mean_diff) >>,
          confidence |-> ContinuousConfidence(measured.significant, measured.total_area,
                                              measured.contours_frame, measured.contours_bg,
                                              measured.mean_diff)]

\* lines 275-281
ScoreBurst ==
    /\ UNCHANGED << fogVars, detectorVars, blendVars, lambdaVars, measured >>
    /\ scores' =
         [mode |-> "burst",
          sub |-> << area_score(measured.total_area), diff_score(measured.mean_diff),
                     contour_score(measured.significant) >>,
          confidence |-> FrameScore([num_contours |-> measured.significant,
                                     total_area |-> measured.total_area,
                                     mean_diff |-> measured.mean_diff])]

InitScores ==
    /\ InitMain /\ CV2_AVAILABLE
    /\ InitMotionDetector
    /\ measured \in Measurements
    /\ scores = NoScores
    /\ IdleBlend
    /\ IdleLambda

NextScores == ScoreContinuous \/ ScoreBurst

SpecScores == InitScores /\ [][NextScores]_vars

\* --------------------------------------------------- background update ---
\* cv2.addWeighted(model, w, frame, 1 - w, 0) on 8-bit images, pixel by
\* pixel: the weighted sum is rounded to the nearest integer.  A sum that
\* falls exactly between two integers may come out as either, since the
\* weights are not exact in binary floating point.

Pixels == 0 .. 255
OldWeights == {95, 92}

BlendResults(m, f, w) ==
    LET hundredths == w * m + (100 - w) * f
        q == hundredths \div 100
        r == hundredths % 100
    IN  IF r < 50 THEN {q} ELSE IF r > 50 THEN {q + 1} ELSE {q, q + 1}

\* lines 161-163 (old_weight 95) and line 301 (old_weight 92), with the
\* same frame each time.
BlendUpdate ==
    /\ UNCHANGED << fogVars, detectorVars, scoreVars, lambdaVars, frame_px, old_weight >>
    /\ model_px' \in BlendResults(model_px, frame_px, old_weight)
    /\ updated' = TRUE

InitBlend ==
    /\ InitMain /\ CV2_AVAILABLE
    /\ InitMotionDetector
    /\ IdleScores
    /\ model_px \in Pixels
    /\ frame_px \in Pixels
    /\ old_weight \in OldWeights
    /\ updated = FALSE
    /\ IdleLambda

NextBlend == BlendUpdate

SpecBlend == InitBlend /\ [][NextBlend]_vars

\* ------------------------------------------------------- cloud handler ---
\* src/lambda/lambda_function.py.  One invocation at a time is followed
\* through lambda_handler; the bucket, the table and the topic keep what
\* earlier invocations put there.  The request of invocation n carries the
\* timestamp n, so the record and the object key of an invocation are
\* known by its number.  A record is the item of lines 75-81 without the
\* sensor id and the event type, which are copied from the body; its S3Key
\* is None when the item has no such attribute.

Methods == {"GET", "POST", "PUT"}

\* What the event's body is: no 'body' key (the event is the body), a JSON
\* object, text that is not JSON, or JSON that is not an object.
Requests ==
    [method : {"POST"}, body : {"none", "object", "not_json", "not_object"},
     timestamp : {"number", "absent", "text"}, image : {"absent", "base64", "not_base64"}]
    \cup [method : Methods \ {"POST"}, body : {"none"}, timestamp : {"absent"},
          image : {"absent"}]

\* lines 42-47: with text that is not JSON the event itself stays the body,
\* and it has none of the fields.
FieldOf(req, field) ==
    IF req.body = "not_json" THEN "absent"
    ELSE IF field = "timestamp" THEN req.timestamp ELSE req.image

\* lines 49-52: body.get needs a dict, and Decimal(str(...)) a number.
BodyParses(req) ==
    /\ req.body # "not_object"
    /\ FieldOf(req, "timestamp") # "text"

\* Variant of lines 58-71 in which a failed upload leaves handle_post.
UploadRaisesOnFailure(outcome) == outcome # "ok"

\* lines 58-71: the try block around the image upload catches everything.
UploadRaises(outcome) == FALSE

Respond(code, text) ==
    /\ response' = [statusCode |-> code, body |-> text]
    /\ lpc' = "done"

\* lines 14-19: the handler is invoked and creates its clients.
Invoke(req) ==
    /\ UNCHANGED << fogVars, detectorVars, scoreVars, blendVars >>
    /\ lpc \in {"idle", "done"}
    /\ requests < MaxRequests
    /\ requests' = requests + 1
    /\ request' = req
    /\ lpc' = "dispatch"
    /\ s3_key' = None
    /\ response' = NoResponse
    /\ calls' = NoCalls
    /\ UNCHANGED << S3_BUCKET, SNS_TOPIC_ARN, bucket, table, alerts >>

\* lines 22-32
Dispatch ==
    /\ UNCHANGED << fogVars, detectorVars, scoreVars, blendVars >>
    /\ lpc = "dispatch"
    /\ IF request.method = "GET" THEN lpc' = "get" /\ UNCHANGED response
       ELSE IF request.method = "POST" THEN lpc' = "parse" /\ UNCHANGED response
       ELSE Respond(405, "Method not allowed")
    /\ UNCHANGED << request, S3_BUCKET, SNS_TOPIC_ARN, s3_key, bucket, table, alerts,
                    calls, requests >>

\* lines 120-146, and 34-39 when the scan raises.
HandleGet(scan_ok) ==
    /\ UNCHANGED << fogVars, detectorVars, scoreVars, blendVars >>
    /\ lpc = "get"
    /\ IF scan_ok THEN Respond(200, "items") ELSE Respond(500, "error")
    /\ UNCHANGED << request, S3_BUCKET, SNS_TOPIC_ARN, s3_key, bucket, table, alerts,
                    calls, requests >>

\* lines 42-54, and 34-39 when body.get or Decimal raises.
ParseBody ==
    /\ UNCHANGED << fogVars, detectorVars, scoreVars, blendVars >>
    /\ lpc = "parse"
    /\ IF BodyParses(request) THEN lpc' = "upload" /\ UNCHANGED response
                              ELSE Respond(500, "error")
    /\ UNCHANGED << request, S3_BUCKET, SNS_TOPIC_ARN, s3_key, bucket, table, alerts,
                    calls, requests >>

\* line 57 false: no image in the body, or no bucket configured.
ImageUploadSkipped ==
    /\ UNCHANGED << fogVars, detectorVars, scoreVars, blendVars >>
    /\ lpc = "upload"
    /\ ~(FieldOf(request, "image") # "absent" /\ S3_BUCKET)
    /\ calls' = [calls EXCEPT !.put_object = "skipped"]
    /\ lpc' = "write"
    /\ UNCHANGED << request, S3_BUCKET, SNS_TOPIC_ARN, s3_key, bucket, table, alerts,
                    response, requests >>

\* lines 57-71: put_ok is whether s3.put_object succeeds; b64decode fails
\* on an image that is not base64.
ImageUpload(put_ok) ==
    /\ UNCHANGED << fogVars, detectorVars, scoreVars, blendVars >>
    /\ lpc = "upload"
    /\ FieldOf(request, "image") # "absent" /\ S3_BUCKET
    /\ LET outcome == IF FieldOf(request, "image") = "not_base64" THEN "decode_failed"
                      ELSE IF put_ok THEN "ok" ELSE "failed"
       IN  /\ calls' = [calls EXCEPT !.put_object = outcome]
           /\ IF outcome = "ok"
              THEN /\ bucket' = bucket \cup {requests}
                   /\ s3_key' = Some(requests)
              ELSE UNCHANGED << bucket, s3_key >>
           /\ IF UploadRaises(outcome) THEN Respond(500, "error")
                                       ELSE lpc' = "write" /\ UNCHANGED response
    /\ UNCHANGED << request, S3_BUCKET, SNS_TOPIC_ARN, table, alerts, requests >>

\* lines 74-83, and 34-39 when table.put_item raises.
TableWrite(write_ok) ==
    /\ UNCHANGED << fogVars, detectorVars, scoreVars, blendVars >>
    /\ lpc = "write"
    /\ LET item == [Timestamp |-> requests, S3Key |-> s3_key]
       IN  IF write_ok
           THEN /\ table' = table \cup {item}
                /\ calls' = [calls EXCEPT !.put_item = "ok"]
                /\ lpc' = "notify"
                /\ UNCHANGED response
           ELSE /\ calls' = [calls EXCEPT !.put_item = "failed"]
                /\ Respond(500, "error")
                /\ UNCHANGED table
    /\ UNCHANGED << request, S3_BUCKET, SNS_TOPIC_ARN, s3_key, bucket, alerts, requests >>

\* line 86 false, then lines 109-112.
NotifySkipped ==
    /\ UNCHANGED << fogVars, detectorVars, scoreVars, blendVars >>
    /\ lpc = "notify"
    /\ ~SNS_TOPIC_ARN
    /\ calls' = [calls EXCEPT !.presigned_url = "skipped", !.publish = "skipped"]
    /\ Respond(200, "Event processed")
    /\ UNCHANGED << request, S3_BUCKET, SNS_TOPIC_ARN, s3_key, bucket, table, alerts,
                    requests >>

\* lines 86-112: the presigned URL is asked for when there is a key, and
\* the message published.
Notify(url_ok, publish_ok) ==
    /\ UNCHANGED << fogVars, detectorVars, scoreVars, blendVars >>
    /\ lpc = "notify"
    /\ SNS_TOPIC_ARN
    /\ LET with_url == s3_key # None /\ S3_BUCKET
           url == IF ~with_url THEN "skipped" ELSE IF url_ok THEN "ok" ELSE "failed"
           message == [Timestamp |-> requests,
                       image |-> IF url = "ok" THEN "Image: url"
                                 ELSE IF url = "failed" THEN "URL gen failed"
                                 ELSE "no image"]
       IN  /\ calls' = [calls EXCEPT !.presigned_url = url,
                                     !.publish = IF publish_ok THEN "ok" ELSE "failed"]
           /\ alerts' = IF publish_ok THEN alerts \cup {message} ELSE alerts
    /\ Respond(200, "Event processed")
    /\ UNCHANGED << request, S3_BUCKET, SNS_TOPIC_ARN, s3_key, bucket, table, requests >>

InitLambda ==
    /\ InitMain /\ CV2_AVAILABLE
    /\ InitMotionDetector
    /\ IdleScores
    /\ IdleBlend
    /\ IdleHandler
    /\ S3_BUCKET \in BOOLEAN
    /\ SNS_TOPIC_ARN \in BOOLEAN

NextLambda ==
    \/ \E req \in Requests : Invoke(req)
    \/ Dispatch
    \/ \E ok \in BOOLEAN : HandleGet(ok)
    \/ ParseBody
    \/ ImageUploadSkipped
    \/ \E ok \in BOOLEAN : ImageUpload(ok)
    \/ \E ok \in BOOLEAN : TableWrite(ok)
    \/ NotifySkipped
    \/ \E u \in BOOLEAN, p \in BOOLEAN : Notify(u, p)

SpecLambda == InitLambda /\ [][NextLambda]_vars

\* ------------------------------------------------------------- claims ---
AcceptStep == pc = "loop" /\ pc' = "verify"
ReadingStep == pc = "loop" /\ line' # NoLine
DecisionStep == pc = "analysis" /\ pc' = "returned" /\ result'.debug_info.status = "summary"
BackToLoopStep == pc \in {"returned", "sent"} /\ pc' = "loop"
SendStep == sends' = sends + 1

\* max(motion_scores), 0 when empty; the number of scores at or above the threshold.
BagMax(b) ==
    IF BagToSet(b) = {} THEN 0
    ELSE CHOOSE m \in BagToSet(b) : \A x \in BagToSet(b) : x <= m
CountAtLeast(b, thr) == CountOver(b, {x \in BagToSet(b) : x >= thr})

\* C1: verification is started on a reading iff the reading is "ON", the
\* recorded line state is not "ON" and the clock is at or past the cooldown
\* expiry; no other step starts it.
C1_StartIffRisingEdgeOutsideCooldown ==
    [][ /\ (pc # "verify" /\ pc' = "verify") => ReadingStep
        /\ ReadingStep =>
             (pc' = "verify" <=>
                (line' = "ON" /\ last_state # "ON" /\ now' >= detector_cooldown)) ]_vars

\* C1 witness: after a cooldown was set, an edge at exactly the expiry instant
\* has started verification.
C1_Witness ==
    pc = "verify" /\ line = "ON" /\ detector_cooldown > 0 /\ now = detector_cooldown

\* C2 as stated: every real=true verification is followed by the cooldown
\* being set to now + COOLDOWN_PERIOD before the next reading.
C2_EveryRealSetsCooldown ==
    [][ (BackToLoopStep /\ result.is_real)
          => detector_cooldown' = now' + COOLDOWN_PERIOD ]_vars

\* C2 amended: a real=true verification that returned an image is followed by
\* the cooldown being set to now + COOLDOWN_PERIOD before the next reading, and
\* no edge before the expiry starts a verification.
C2_RealWithImageSetsCooldown ==
    [][ /\ (BackToLoopStep /\ result.is_real /\ result.image_b64 # None)
             => detector_cooldown' = now' + COOLDOWN_PERIOD
        /\ AcceptStep => now' >= detector_cooldown ]_vars

\* C2 witness: back in the loop after an upload, the expiry one period ahead.
C2_Witness ==
    /\ pc = "loop"
    /\ sends = 1
    /\ last_state = "ON"
    /\ detector_cooldown = now + COOLDOWN_PERIOD

\* C3: detector_cooldown changes only in the step after a real=true decision
\* (the one that follows the upload call).
C3_CooldownChangesOnlyAfterReal ==
    [][ detector_cooldown' # detector_cooldown
          => (pc = "sent" /\ result.is_real /\ result.image_b64 # None) ]_vars

\* C3 witness: a later false-positive verdict has been handled with the expiry
\* of an earlier event still in place.
C3_Witness ==
    /\ pc = "returned"
    /\ ~result.is_real
    /\ result.debug_info.status = "summary"
    /\ detector_cooldown = COOLDOWN_PERIOD

\* C4: send_to_cloud is called at most once per accepted edge, and only with
\* a real=true verdict and a non-empty image.
C4_UploadOnceOnlyWhenRealWithImage ==
    /\ [](sends <= 1)
    /\ [][ SendStep => (sends = 0 /\ pc = "returned" /\ result.is_real
                          /\ result.image_b64 # None) ]_vars

\* C4 witness: the one upload of an edge has been made.
C4_Witness == pc = "sent" /\ sends = 1 /\ result.is_real /\ result.image_b64 # None

\* C5: whatever the outcome of the upload, control passes on to the cooldown
\* assignment, the expiry becomes now + COOLDOWN_PERIOD, the line state
\* becomes "ON" and the loop goes on.
C5_UploadFailureKeepsCooldown ==
    [][ /\ SendStep => (pc' = "sent" /\ UNCHANGED mainVars)
        /\ (pc = "sent" /\ pc' # "stopped")
             => /\ pc' = "loop"
                /\ detector_cooldown' = now' + COOLDOWN_PERIOD
                /\ last_state' = "ON" ]_vars

\* C5 witness: back in the loop after an upload that failed.
C5_Witness ==
    /\ pc = "loop"
    /\ upload_outcome \in {"http_error", "url_error", "other_error", "unconfigured"}
    /\ detector_cooldown = now + COOLDOWN_PERIOD
    /\ last_state = "ON"

\* C6: two consecutive upload attempts are at least COOLDOWN_PERIOD apart.
C6_UploadsSeparatedByCooldown ==
    [][ (SendStep /\ last_send # -1) => now' - last_send >= COOLDOWN_PERIOD ]_vars

\* C6 witness: a second upload has been made.
C6_Witness == pc = "sent" /\ detector_cooldown > 0 /\ last_send >= COOLDOWN_PERIOD

\* C7: an edge ignored in cooldown still records "ON", and from then on no
\* verification starts until "OFF" has been read.
C7_IgnoredEdgeIsRecorded ==
    [][ /\ (ReadingStep /\ line' = "ON" /\ last_state # "ON" /\ now' < detector_cooldown)
             => (last_state' = "ON" /\ pc' = "loop")
        /\ ignored_edge => ~AcceptStep ]_vars

\* C7 witness: the line is still "ON" at or past the expiry after an ignored
\* edge, and the loop is idle.
C7_Witness ==
    /\ pc = "loop"
    /\ ignored_edge
    /\ line = "ON"
    /\ last_state = "ON"
    /\ now >= detector_cooldown

\* C8: the verdict is real iff at least 3 scores are >= the threshold, the
\* largest score is >= 0.6 and the average score is >= 0.24.
C8_VerdictIffThreeGates ==
    [][ DecisionStep =>
          (result'.is_real <=>
             /\ CountAtLeast(motion_scores, CONFIDENCE_THRESHOLD) >= 3
             /\ BagMax(motion_scores) * 10 >= 6 * One
             /\ ScoreSum(motion_scores) * 100 >= 24 * One * ScoreLen(motion_scores)) ]_vars

\* C8 witness: a full burst whose average is exactly 0.24 was judged real.
C8_Witness ==
    /\ pc = "returned"
    /\ result.is_real
    /\ result.debug_info.total_frames = ANALYSIS_FRAMES_COUNT
    /\ result.debug_info.avg_confidence.num * 100
          = 24 * One * result.debug_info.avg_confidence.den

\* C9: with verdict real the best frame is present, its score is the largest
\* score of the session, and that score is the confidence returned.
C9_BestFrameIsHighestScoring ==
    [][ (DecisionStep /\ result'.is_real) =>
          /\ best_frame # None
          /\ FrameScore(best_frame[1]) = BagMax(motion_scores)
          /\ result'.confidence = BagMax(motion_scores) ]_vars

\* C9 witness: a real verdict with maximum 0.9 returned with its image, in a
\* session that also saw a lower score at the threshold.
C9_Witness ==
    /\ pc = "returned"
    /\ result.is_real
    /\ result.confidence * 10 = 9 * One
    /\ result.debug_info.median_confidence = CONFIDENCE_THRESHOLD
    /\ result.image_b64 # None
    /\ FrameScore(result.image_b64[2]) = result.confidence

\* C10: when every analysed frame scored 0 the verdict is false, no frame
\* counted as motion, the confidence is 0 and there is no best frame or image.
C10_AllZeroScores ==
    [][ (DecisionStep /\ \A x \in BagToSet(motion_scores) : x = 0) =>
          /\ ~result'.is_real
          /\ result'.debug_info.frames_with_motion = 0
          /\ result'.confidence = 0
          /\ best_frame = None
          /\ result'.image_b64 = None ]_vars

\* C10 witness: a full burst of 15 analysed frames all scoring 0.
C10_Witness ==
    /\ pc = "returned"
    /\ result.debug_info.status = "summary"
    /\ result.debug_info.total_frames = ANALYSIS_FRAMES_COUNT
    /\ result.debug_info.max_confidence = 0

\* The fail-open result: verdict real, no image, a diagnostic text.
FailOpen(r, text) ==
    /\ r.is_real
    /\ r.confidence = One
    /\ r.image_b64 = None
    /\ r.debug_info = DebugText(text)

\* C11: when the camera does not open, or fewer than 2 reference frames were
\* captured, the analysis phase is not entered and the call returns verdict
\* real with a diagnostic text and no image.
C11_FailOpenOnCameraFailure ==
    [][ /\ (pc = "verify" /\ cap' = "unopened")
             => (pc' = "returned" /\ FailOpen(result', "Camera unavailable"))
        /\ (pc = "reference" /\ ref_i = REFERENCE_FRAMES_COUNT
              /\ reference_frames < 2 /\ pc' # "stopped")
             => (pc' = "returned" /\ FailOpen(result', "Not enough reference frames"))
        /\ (pc # "analysis" /\ pc' = "analysis")
             => (cap = "open" /\ reference_frames >= 2) ]_vars

\* C11 witness: the early return after a reference phase with too few frames.
C11_Witness ==
    /\ pc = "returned"
    /\ cap = "released"
    /\ FailOpen(result, "Not enough reference frames")

\* C12 as stated: whenever the call has returned, a camera handle that was
\* opened has been released.
C12_CameraReleasedOnEveryReturn == pc = "returned" => cap # "open"

\* C15: a read that raises, or a token that is neither "ON" nor "OFF", does
\* not end the loop and changes neither the line state nor the expiry.
C15_BadReadingIsDropped ==
    [][ (pc = "loop" /\ line' \in {ReadFailed, "junk"})
          => (pc' = "loop" /\ UNCHANGED mainVars) ]_vars

\* C15 witness: the loop is running after a failed read, with an earlier
\* expiry and line state still in place.
C15_Witness ==
    /\ pc = "loop"
    /\ line = ReadFailed
    /\ last_state = "ON"
    /\ detector_cooldown = COOLDOWN_PERIOD

\* C16 as stated: whatever happens to one frame of the analysis loop, the loop
\* goes on with the next frame.
C16_FrameFailureSkipsFrame ==
    [][ (pc = "analysis" /\ frame_idx < ANALYSIS_FRAMES_COUNT /\ pc' # "stopped")
          => (pc' = "analysis" /\ frame_idx' = frame_idx + 1) ]_vars

ScoredStep == frames_seen' = frames_seen + 1 /\ analysis'.status = "scored"
JudgedMotion(a) ==
    a.confidence >= CONFIDENCE_THRESHOLD /\ a.contours > 0 /\ a.motion_area > MIN_CONTOUR_AREA

\* C13: the continuous detector's streak counter is never negative; a
\* scored frame adds exactly 1 to it when the frame is judged motion and
\* otherwise takes 1 off, or leaves it at 0 when it is 0 already; a frame
\* that is not scored leaves it alone.
C13_StreakCounterSteps ==
    /\ [](motion_frame_count >= 0)
    /\ [][ /\ ScoredStep =>
                motion_frame_count' =
                    IF JudgedMotion(analysis') THEN motion_frame_count + 1
                    ELSE IF motion_frame_count = 0 THEN 0
                    ELSE motion_frame_count - 1
           /\ (frames_seen' = frames_seen + 1 /\ ~ScoredStep) =>
                motion_frame_count' = motion_frame_count ]_vars
C13_Witness ==
    /\ analysis.status = "scored" /\ ~JudgedMotion(analysis)
    /\ motion_frame_count = 0 /\ motion_since_reset >= 2

AnalyzeStep == frames_seen' = frames_seen + 1
ConsumeStep == frames_seen' = frames_seen /\ detectorVars' # detectorVars

\* C14: analyze_frame reports confirmed motion only when the streak is at
\* least MIN_MOTION_FRAMES; consuming the event (reset_motion_count) puts
\* the streak back at 0, so every confirmed report has at least
\* MIN_MOTION_FRAMES frames judged motion since the last consumption.
C14_ConfirmedOnlyAtThreshold ==
    [][ /\ (AnalyzeStep /\ analysis'.is_confirmed) =>
              /\ motion_frame_count' >= MIN_MOTION_FRAMES
              /\ motion_since_reset' >= MIN_MOTION_FRAMES
        /\ ConsumeStep => motion_frame_count' = 0 ]_vars
C14_Witness ==
    /\ analysis.is_confirmed /\ last_valid_motion_time > 0
    /\ motion_frame_count = 0 /\ motion_since_reset = 0

\* C20: in continuous mode a scored frame increments the streak if and
\* only if its confidence is at least 0.6, at least one contour survives
\* the area filter and the surviving area exceeds MIN_CONTOUR_AREA; a
\* frame without a surviving contour never increments it.
C20_MotionIffThreeConditions ==
    [][ ScoredStep =>
          /\ (motion_frame_count' = motion_frame_count + 1) <=>
                 /\ analysis'.confidence >= CONFIDENCE_THRESHOLD
                 /\ analysis'.contours >= 1
                 /\ analysis'.motion_area > MIN_CONTOUR_AREA
          /\ analysis'.contours = 0 => motion_frame_count' <= motion_frame_count ]_vars
C20_Witness ==
    /\ analysis.status = "scored" /\ analysis.confidence = CONFIDENCE_THRESHOLD
    /\ analysis.contours = 3 /\ motion_frame_count = 1 /\ motion_since_reset = 1

FramesUpTo(n) == [i \in 1 .. n |-> i]

\* C19 as stated, for the continuous mode: every frame handed to
\* analyze_frame is in the background model exactly once, in order, and a
\* scored frame was scored against the model of all frames before it.
C19_EveryFrameBlendedOnceAfterScoring ==
    is_initialized =>
        /\ background_frame = FramesUpTo(frames_seen)
        /\ analysis.status = "scored" => analysis.against = FramesUpTo(frames_seen - 1)

\* C17: whatever the contour counts, the total area and the mean
\* difference are, every sub-score and the combined confidence lie between
\* 0 and 1, with the continuous weights and with the burst weights.
C17_ScoresWithinUnitInterval ==
    /\ \A i \in DOMAIN scores.sub : scores.sub[i] \in 0 .. One
    /\ scores.confidence \in 0 .. One
C17_Witness ==
    /\ scores.mode = "continuous" /\ scores.confidence = One
    /\ measured.mean_diff = 255 /\ measured.total_area = 70000
    /\ measured.significant = 1000 /\ measured.contours_bg = 0

Stalled == BlendResults(model_px, frame_px, old_weight) = {model_px}

\* C18 as stated: repeating the update with the same frame ends with the
\* model equal to the frame, so the update can leave a pixel where it is
\* only once the pixel has the frame's value.
C18_RepeatedUpdateReachesFrame == (updated /\ Stalled) => model_px = frame_px

FailOpenTexts == {"OpenCV not available", "Camera unavailable", "Not enough reference frames"}
FailOpenVerdict(r) ==
    r.is_real /\ r.confidence = One /\ r.debug_info.status \in FailOpenTexts

C22_LineStateOnAfterEveryRun ==
    [][ /\ BackToLoopStep => last_state' = "ON"
        /\ AcceptStep => (last_state # "ON" /\ line' = "ON")
        /\ (last_state = "ON" /\ last_state' # "ON") => (pc = "loop" /\ line' = "OFF")
        /\ (pc = "loop" /\ last_state = "ON" /\ line' = "ON")
             => (pc' = "loop" /\ UNCHANGED mainVars) ]_vars
C22_Witness ==
    /\ pc = "loop" /\ last_state = "ON" /\ line = "ON"
    /\ cap = "open" /\ sends = 0 /\ ~ignored_edge

\* C23: during the analysis loop of a burst session, after every frame:
\* frames_with_motion is the number of recorded scores at or above the
\* threshold, which is at most the number of recorded scores, which is at
\* most the number of frames tried and ANALYSIS_FRAMES_COUNT;
\* max_confidence is the largest recorded score (0 when none); best_frame is
\* present exactly when max_confidence > 0; and a frame that records no
\* score changes none of the counters.
C23_SessionCountersConsistent ==
    /\ [](pc = "analysis" =>
            /\ frames_with_motion = CountAtLeast(motion_scores, CONFIDENCE_THRESHOLD)
            /\ frames_with_motion <= ScoreLen(motion_scores)
            /\ ScoreLen(motion_scores) <= frame_idx
            /\ frame_idx <= ANALYSIS_FRAMES_COUNT
            /\ max_confidence = BagMax(motion_scores)
            /\ (best_frame # None) <=> (max_confidence > 0))
    /\ [][ (pc = "analysis" /\ frame_idx' = frame_idx + 1) =>
              /\ ScoreLen(motion_scores') \in {ScoreLen(motion_scores), ScoreLen(motion_scores) + 1}
              /\ ScoreLen(motion_scores') = ScoreLen(motion_scores) =>
                    UNCHANGED << motion_scores, max_confidence, best_frame,
                                 frames_with_motion >> ]_vars
C23_Witness ==
    /\ pc = "analysis" /\ frame_idx = ANALYSIS_FRAMES_COUNT
    /\ ScoreLen(motion_scores) = ANALYSIS_FRAMES_COUNT - 2
    /\ frames_with_motion = 3 /\ CopiesIn(0, motion_scores) = 10
    /\ best_frame # None /\ max_confidence = CONFIDENCE_THRESHOLD

PostDone == lpc = "done" /\ request.method = "POST"
RecordWritten == \E it \in table : it.Timestamp = requests
KeysAreStored == \A it \in table : it.S3Key # None => it.S3Key[1] \in bucket

\* C24 as stated: every POST request has its record written, with status
\* 200, unless the table write itself failed, which gives status 500; a
\* record has an S3Key only for an object that was stored.
C24_EveryPostWritesRecord ==
    /\ KeysAreStored
    /\ PostDone =>
         IF calls.put_item = "failed"
         THEN response.statusCode = 500
         ELSE RecordWritten /\ response.statusCode = 200

\* C24, amended: for every POST request whose body parses, the table write
\* is made whatever the image upload did; when it succeeds the record is in
\* the table and the status is 200 whatever the upload, the URL generation
\* and the publication did, and the record has an S3Key exactly when the
\* object was stored; when it fails the status is 500, there is no record
\* and nothing is published.  A request whose body does not parse gets
\* status 500 before any service call.
C24_ParsedPostWritesRecord ==
    /\ KeysAreStored
    /\ PostDone =>
         /\ BodyParses(request) => calls.put_item \in {"ok", "failed"}
         /\ calls.put_item = "ok" =>
              /\ response.statusCode = 200
              /\ [Timestamp |-> requests,
                  S3Key |-> IF calls.put_object = "ok" THEN Some(requests) ELSE None]
                    \in table
         /\ calls.put_item = "failed" =>
              /\ response.statusCode = 500
              /\ ~RecordWritten
              /\ calls.publish = "none"
         /\ ~BodyParses(request) =>
              /\ response.statusCode = 500
              /\ ~RecordWritten
              /\ calls = NoCalls
C24_Witness ==
    /\ PostDone /\ requests = 2 /\ response.statusCode = 200
    /\ calls = [put_object |-> "failed", put_item |-> "ok", presigned_url |-> "skipped",
                publish |-> "failed"]
    /\ table = {[Timestamp |-> 1, S3Key |-> Some(1)], [Timestamp |-> 2, S3Key |-> None]}

====
